---- MODULE Spec2Model ----
(***************************************************************************)
(* Model of the Go types generator of the API metamodel                    *)
(* (pkg/generators/golang/types_generator.go), of the Go code its          *)
(* templates generate (struct objects and list containers) and of the      *)
(* generated server adapter exercised by the server tests.                 *)
(***************************************************************************)
EXTENDS Integers, Sequences, FiniteSets, TLC

VARIABLES
    b,          \* TypesGeneratorBuilder: the six configuration fields
    g,          \* TypesGenerator built last, or Nil
    buildErr,   \* error returned by the last Build, or Nil
    reported,   \* number of reporter.Errorf calls made so far
    run,        \* position and local variables of TypesGenerator.Run
    buffers,    \* every Buffer created so far, in creation order
    files,      \* files written to disk so far, in write order
    lastOp,     \* name of the operation that produced the current state
    objType,    \* generated struct code: the struct type it was generated for
    o,          \* generated struct code: the receiver object
    ret,        \* generated struct code: the last call and what it returned
    heap,       \* generated list code: the backing arrays of all slices
    l,          \* generated list code: the receiver list
    made,       \* generated list code: the items the list was made with
    slice,      \* generated list code: the slice the caller got from Slice()
    lret,       \* generated list code: the last call and what it returned
    request,    \* server adapter: the request served last
    response,   \* server adapter: its status and the user method invoked
    listing     \* server adapter: what a List handler received and answered

genVars == << b, g, buildErr, reported, run, buffers, files, lastOp >>

objVars == << objType, o, ret >>

listVars == << heap, l, made, slice, lret >>

srvVars == << request, response, listing >>

vars == << genVars, objVars, listVars, srvVars >>

Nil == "nil"

(***************************************************************************)
(* Model graph (package concepts): types, attributes, versions, services.  *)
(***************************************************************************)
Type(n, k, c, as) == [name |-> n, kind |-> k, class |-> c, attrs |-> as]

Attribute(n, k, linked) ==
    [name |-> n, type |-> Type(k, k, FALSE, << >>), link |-> linked]

IsScalar(typ) == typ.kind = "scalar"

IsEnum(typ) == typ.kind = "enum"

IsStruct(typ) == typ.kind = "struct"

IsList(typ) == typ.kind = "list"

IsMap(typ) == typ.kind = "map"

Version(n, ts) == [name |-> n, types |-> ts]

Service(n, vs) == [name |-> n, versions |-> vs]

\* One service, one version: a class struct with one attribute of every
\* supported kind, a plain struct, an enum and a scalar.
ModelClusters ==
    << Service("clusters_mgmt", <<
         Version("v1", <<
           Type("cluster", "struct", TRUE, <<
             Attribute("name", "scalar", FALSE),
             Attribute("flavour", "struct", FALSE),
             Attribute("groups", "list", TRUE),
             Attribute("ids", "list", FALSE),
             Attribute("properties", "map", FALSE) >>),
           Type("flavour", "struct", FALSE, <<
             Attribute("name", "scalar", FALSE),
             Attribute("nodes", "struct", FALSE) >>),
           Type("cluster_state", "enum", FALSE, << >>),
           Type("string", "scalar", FALSE, << >>) >>) >>) >>

\* struct ResourceReview of the authorizations model.
ResourceReview ==
    Type("resource_review", "struct", FALSE, <<
      Attribute("account_username", "scalar", FALSE),
      Attribute("action", "scalar", FALSE),
      Attribute("resource_type", "scalar", FALSE),
      Attribute("cluster_ids", "list", FALSE),
      Attribute("subscription_ids", "list", FALSE),
      Attribute("organization_ids", "list", FALSE) >>)

\* Three services: types that produce no file, a version without types, a
\* service without versions, and a struct with attributes whose type has no
\* reference form.
ModelMixed ==
    << Service("authorizations", <<
         Version("v1", <<
           Type("string_list", "list", FALSE, << >>),
           ResourceReview >>),
         Version("v2", << >>) >>),
       Service("empty", << >>),
       Service("accounts_mgmt", <<
         Version("v1", <<
           Type("labels", "map", FALSE, << >>),
           Type("account", "struct", TRUE, <<
             Attribute("plan", "enum", FALSE),
             Attribute("owner", "struct", TRUE),
             Attribute("status", "enum", FALSE) >>) >>) >>) >>

ModelEmpty == << >>

\* A version with an enum named like the version metadata, whose file is
\* the metadata file of the version, between two other types.
ModelMetadata ==
    << Service("status_board", <<
         Version("v1", <<
           Type("status", "enum", FALSE, << >>),
           Type("metadata", "enum", FALSE, << >>),
           Type("product", "struct", FALSE, <<
             Attribute("name", "scalar", FALSE) >>) >>),
         Version("v2", << >>) >>) >>

Models == { ModelClusters, ModelMixed, ModelEmpty, ModelMetadata }

(***************************************************************************)
(* Types calculator: reference forms.                                      *)
(***************************************************************************)
ValueReference(typ) == [form |-> "Value", type |-> typ.kind]

NullableReference(typ) == [form |-> "Nullable", type |-> typ.kind]

ListReference(typ) == [form |-> "List", type |-> typ.kind]

\* A nil *TypeReference, and the empty TypeReference{} used after an error.
NilReference == [form |-> "nil", type |-> "nil"]

EmptyReference == [form |-> "empty", type |-> "empty"]

(***************************************************************************)
(* TypesGenerator.fieldType and TypesGenerator.getterType: the reference   *)
(* chosen for an attribute, and the number of errors reported on the way.  *)
(***************************************************************************)
Checked(ref) ==
    IF ref = NilReference
    THEN [ref |-> EmptyReference, errors |-> 1]
    ELSE [ref |-> ref, errors |-> 0]

getterTypeScalarNullable(attribute) ==
    LET typ == attribute.type
        ref == CASE IsScalar(typ) -> NullableReference(typ)
                 [] IsStruct(typ) -> NullableReference(typ)
                 [] IsList(typ) -> IF attribute.link THEN ListReference(typ)
                                   ELSE NullableReference(typ)
                 [] IsMap(typ) -> NullableReference(typ)
                 [] OTHER -> NilReference
    IN  Checked(ref)

getterType(attribute) ==
    LET typ == attribute.type
        ref == CASE IsScalar(typ) -> ValueReference(typ)
                 [] IsStruct(typ) -> NullableReference(typ)
                 [] IsList(typ) -> IF attribute.link THEN ListReference(typ)
                                   ELSE NullableReference(typ)
                 [] IsMap(typ) -> NullableReference(typ)
                 [] OTHER -> NilReference
    IN  Checked(ref)

fieldType(attribute) ==
    LET typ == attribute.type
        ref == CASE IsScalar(typ) -> NullableReference(typ)
                 [] IsStruct(typ) -> NullableReference(typ)
                 [] IsList(typ) -> IF attribute.link THEN ListReference(typ)
                                   ELSE NullableReference(typ)
                 [] IsMap(typ) -> NullableReference(typ)
                 [] OTHER -> NilReference
    IN  Checked(ref)

(***************************************************************************)
(* Sources emitted into a buffer.                                          *)
(***************************************************************************)
RECURSIVE SumSeq(_)
SumSeq(q) == IF q = << >> THEN 0 ELSE Head(q) + SumSeq(Tail(q))

NoMembers == << >>

\* generateVersionMetadataTypeSource
MetadataSource ==
    [what |-> "metadata", object |-> "metadata", class |-> FALSE,
     fields |-> NoMembers, getters |-> NoMembers]

\* generateEnumTypeSource
EnumSource(typ) ==
    [what |-> "enum", object |-> typ.name, class |-> FALSE,
     fields |-> NoMembers, getters |-> NoMembers]

\* The suffixes of the kind constants of an object or list type.
KindConstants == { "Kind", "LinkKind", "NilKind" }

\* The accessors a list type has only inside the class block of the template.
ListClassMethods == { "Kind", "Link", "HREF", "GetHREF" }

\* The methods every list type has.
ListMethods == { "Len", "Empty", "Get", "Slice", "Each", "Range" }

\* generateStructTypeSource: the struct declaration has one field per
\* attribute, typed by fieldType; one getter pair per attribute, typed by
\* getterType. The kind constants of the object and the class accessors of
\* the list are inside class blocks, the kind constants of the list are not.
StructSource(typ) ==
    [what |-> "struct", object |-> typ.name, class |-> typ.class,
     constants |-> IF typ.class THEN KindConstants ELSE {},
     listConstants |-> KindConstants,
     listMethods |-> (IF typ.class THEN ListClassMethods ELSE {}) \cup ListMethods,
     fields |-> [i \in 1..Len(typ.attrs) |->
                    [attr |-> typ.attrs[i], ref |-> fieldType(typ.attrs[i]).ref]],
     getters |-> [i \in 1..Len(typ.attrs) |->
                    [attr |-> typ.attrs[i], ref |-> getterType(typ.attrs[i]).ref]]]

\* Errors reported through the reporter while the struct template expands.
StructErrors(typ) ==
    SumSeq([i \in 1..Len(typ.attrs) |->
              fieldType(typ.attrs[i]).errors + getterType(typ.attrs[i]).errors])

\* generateTypeSource
TypeSource(typ) ==
    CASE IsEnum(typ) -> EnumSource(typ)
      [] IsStruct(typ) -> StructSource(typ)

TypeErrors(typ) == IF IsStruct(typ) THEN StructErrors(typ) ELSE 0

(***************************************************************************)
(* TypesGeneratorBuilder: setters and Build.                               *)
(***************************************************************************)
ModelNames == { "clusters", "mixed", "empty", "metadata" }

ModelOf(name) ==
    CASE name = "clusters" -> ModelClusters
      [] name = "mixed" -> ModelMixed
      [] name = "empty" -> ModelEmpty
      [] name = "metadata" -> ModelMetadata

\* NewTypesGenerator: &TypesGeneratorBuilder{}
NewTypesGenerator ==
    [reporter |-> Nil, model |-> Nil, output |-> "",
     packages |-> Nil, names |-> Nil, types |-> Nil]

NoError == [kind |-> "nil", text |-> "", n |-> 0]

ConfigError(text) == [kind |-> "config", text |-> text, n |-> 0]

IOError(text) == [kind |-> "io", text |-> text, n |-> 0]

\* The checks of Build, in source order, with the names calculator check
\* left out.
BuildCheckNoNames(builder) ==
    CASE builder.reporter = Nil -> ConfigError("reporter is mandatory")
      [] builder.model = Nil -> ConfigError("model is mandatory")
      [] builder.output = "" -> ConfigError("output is mandatory")
      [] builder.packages = Nil -> ConfigError("packages calculator is mandatory")
      [] builder.types = Nil -> ConfigError("types calculator is mandatory")
      [] OTHER -> NoError

\* The checks of Build, in source order: the first missing parameter decides.
BuildCheck(builder) ==
    IF builder.reporter = Nil THEN ConfigError("reporter is mandatory")
    ELSE IF builder.model = Nil THEN ConfigError("model is mandatory")
    ELSE IF builder.output = "" THEN ConfigError("output is mandatory")
    ELSE IF builder.packages = Nil THEN ConfigError("packages calculator is mandatory")
    ELSE IF builder.names = Nil THEN ConfigError("names calculator is mandatory")
    ELSE IF builder.types = Nil THEN ConfigError("types calculator is mandatory")
    ELSE NoError

\* The generator Build creates: errors and buffer keep their zero values.
NewGenerator(builder) ==
    [ptr |-> "generator",
     reporter |-> builder.reporter, errors |-> 0, model |-> builder.model,
     output |-> builder.output, packages |-> builder.packages,
     names |-> builder.names, types |-> builder.types, buffer |-> 0]

NoGenerator ==
    [ptr |-> Nil,
     reporter |-> Nil, errors |-> 0, model |-> Nil, output |-> "",
     packages |-> Nil, names |-> Nil, types |-> Nil, buffer |-> 0]

IdleRun == [pc |-> "idle", s |-> 0, v |-> 0, t |-> 0, err |-> NoError,
            result |-> [kind |-> "none", text |-> "", n |-> 0]]

Configuring == run.pc = "idle"

Reporter(value) ==
    /\ Configuring
    /\ b' = [b EXCEPT !.reporter = value]
    /\ lastOp' = "Reporter"
    /\ UNCHANGED << objVars, listVars, srvVars >>
    /\ UNCHANGED << g, buildErr, reported, run, buffers, files >>

Model(value) ==
    /\ Configuring
    /\ b' = [b EXCEPT !.model = value]
    /\ lastOp' = "Model"
    /\ UNCHANGED << objVars, listVars, srvVars >>
    /\ UNCHANGED << g, buildErr, reported, run, buffers, files >>

Output(value) ==
    /\ Configuring
    /\ b' = [b EXCEPT !.output = value]
    /\ lastOp' = "Output"
    /\ UNCHANGED << objVars, listVars, srvVars >>
    /\ UNCHANGED << g, buildErr, reported, run, buffers, files >>

Packages(value) ==
    /\ Configuring
    /\ b' = [b EXCEPT !.packages = value]
    /\ lastOp' = "Packages"
    /\ UNCHANGED << objVars, listVars, srvVars >>
    /\ UNCHANGED << g, buildErr, reported, run, buffers, files >>

Names(value) ==
    /\ Configuring
    /\ b' = [b EXCEPT !.names = value]
    /\ lastOp' = "Names"
    /\ UNCHANGED << objVars, listVars, srvVars >>
    /\ UNCHANGED << g, buildErr, reported, run, buffers, files >>

Types(value) ==
    /\ Configuring
    /\ b' = [b EXCEPT !.types = value]
    /\ lastOp' = "Types"
    /\ UNCHANGED << objVars, listVars, srvVars >>
    /\ UNCHANGED << g, buildErr, reported, run, buffers, files >>

Build ==
    /\ Configuring
    /\ buildErr' = BuildCheck(b)
    /\ g' = IF BuildCheck(b) = NoError THEN NewGenerator(b) ELSE NoGenerator
    /\ lastOp' = "Build"
    /\ UNCHANGED << objVars, listVars, srvVars >>
    /\ UNCHANGED << b, reported, run, buffers, files >>

(***************************************************************************)
(* TypesGenerator.Run.  The position of Run is the service, version and    *)
(* type it is at (t = 0: the metadata file of the version) and the step of *)
(* generateVersionMetadataTypeFile / generateTypeFile it is in.            *)
(***************************************************************************)
Services == ModelOf(g.model)

Versions(s) == Services[s].versions

VersionTypes(s, v) == Versions(s)[v].types

\* The next (service, version, type) at or after (s, v, t) in the order of
\* the three nested loops of Run; s > Len(services) when the loops are over.
RECURSIVE Position(_, _, _, _)
Position(services, s, v, t) ==
    IF s > Len(services) THEN [s |-> s, v |-> 0, t |-> 0]
    ELSE IF v > Len(services[s].versions) THEN Position(services, s + 1, 1, 0)
    ELSE IF t > Len(services[s].versions[v].types) THEN Position(services, s, v + 1, 0)
    ELSE [s |-> s, v |-> v, t |-> t]

LoopsDone(pos) == pos.s > Len(Services)

\* Where Run goes after the iteration at (s, v, t) ended without error.
Advance(r) ==
    LET pos == Position(Services, r.s, r.v, r.t + 1)
    IN  [r EXCEPT !.s = pos.s, !.v = pos.v, !.t = pos.t,
                  !.pc = IF LoopsDone(pos) THEN "check" ELSE "build"]

CurrentType == VersionTypes(run.s, run.v)[run.t]

AtMetadata == run.t = 0

\* Only an enum has a file.
HasFileEnumOnly(typ) == IsEnum(typ)

\* case typ.IsEnum() || typ.IsStruct()
HasFile(typ) == IsEnum(typ) \/ IsStruct(typ)

\* The iteration Run is at generates a file: a version's metadata, or an
\* enum or struct type.
GeneratesFile == IF AtMetadata THEN TRUE ELSE HasFile(CurrentType)

\* packages.VersionPackage(version)
VersionPackage == << Services[run.s].name, Versions(run.s)[run.v].name >>

\* metadataFile / typeFile
FileName == << IF AtMetadata THEN "metadata" ELSE CurrentType.name, "type" >>

\* The aggregated error of Run for a count of n errors.
ErrorsMessage(n) ==
    IF n > 1
    THEN [kind |-> "errors", text |-> "there were %d errors", n |-> n]
    ELSE [kind |-> "errors", text |-> "there was 1 error", n |-> 1]

RunStart ==
    /\ run.pc = "idle"
    /\ g.ptr # Nil
    /\ LET pos == Position(Services, 1, 1, 0)
       IN  run' = [run EXCEPT !.s = pos.s, !.v = pos.v, !.t = pos.t,
                       !.pc = IF LoopsDone(pos) THEN "check" ELSE "build"]
    /\ lastOp' = "RunStart"
    /\ UNCHANGED << objVars, listVars, srvVars >>
    /\ UNCHANGED << b, g, buildErr, reported, buffers, files >>

\* A buffer of this run already has the package and file.
FileExists(package, file) ==
    \E i \in 1..Len(buffers) :
        buffers[i].package = package /\ buffers[i].file = file

\* g.buffer, err = NewBuffer()...Build(): a new buffer for the package and
\* file, or an error and no buffer; a file that a buffer of this run already
\* has is an error.
NewBuffer(ok) ==
    /\ run.pc = "build"
    /\ GeneratesFile
    /\ ok => ~FileExists(VersionPackage, FileName)
    /\ IF ok
       THEN /\ buffers' = Append(buffers,
                 [package |-> VersionPackage, file |-> FileName, state |-> "Open",
                  imports |-> {}, content |-> << >>, writes |-> 0])
            /\ g' = [g EXCEPT !.buffer = Len(buffers) + 1]
            /\ run' = [run EXCEPT !.pc = "emit"]
       ELSE /\ buffers' = buffers
            /\ g' = [g EXCEPT !.buffer = 0]
            /\ run' = [run EXCEPT !.pc = "done",
                           !.err = IOError("buffer"), !.result = IOError("buffer")]
    /\ lastOp' = "NewBuffer"
    /\ UNCHANGED << objVars, listVars, srvVars >>
    /\ UNCHANGED << b, buildErr, reported, files >>

\* Emit into the first buffer made, whichever g.buffer is.
EmitFirstBuffer ==
    /\ run.pc = "emit"
    /\ LET source == IF AtMetadata THEN MetadataSource ELSE TypeSource(CurrentType)
           imports == IF ~AtMetadata /\ IsStruct(CurrentType) THEN { "time" } ELSE {}
       IN  buffers' = [buffers EXCEPT ![1] =
                         [@ EXCEPT !.state = "HasContent",
                                   !.imports = @ \cup imports,
                                   !.content = Append(@, source)]]
    /\ reported' = reported + (IF AtMetadata THEN 0 ELSE TypeErrors(CurrentType))
    /\ run' = [run EXCEPT !.pc = "write"]
    /\ lastOp' = "Emit"
    /\ UNCHANGED << objVars, listVars, srvVars >>
    /\ UNCHANGED << b, g, buildErr, files >>

\* generateVersionMetadataTypeSource / generateTypeSource: Import and Emit
\* on g.buffer; fieldType and getterType report their errors.
Emit ==
    /\ run.pc = "emit"
    /\ LET source == IF AtMetadata THEN MetadataSource ELSE TypeSource(CurrentType)
           imports == IF ~AtMetadata /\ IsStruct(CurrentType) THEN { "time" } ELSE {}
       IN  buffers' = [buffers EXCEPT ![g.buffer] =
                         [@ EXCEPT !.state = "HasContent",
                                   !.imports = @ \cup imports,
                                   !.content = Append(@, source)]]
    /\ reported' = reported + (IF AtMetadata THEN 0 ELSE TypeErrors(CurrentType))
    /\ run' = [run EXCEPT !.pc = "write"]
    /\ lastOp' = "Emit"
    /\ UNCHANGED << objVars, listVars, srvVars >>
    /\ UNCHANGED << b, g, buildErr, files >>

\* Write whose error Run does not look at.
WriteErrorIgnored(ok) ==
    /\ run.pc = "write"
    /\ IF ok
       THEN /\ buffers' = [buffers EXCEPT ![g.buffer].state = "Written",
                                          ![g.buffer].writes = @ + 1]
            /\ files' = Append(files, [package |-> buffers[g.buffer].package,
                                       file |-> buffers[g.buffer].file,
                                       content |-> buffers[g.buffer].content])
            /\ run' = Advance([run EXCEPT !.err = NoError])
       ELSE /\ buffers' = [buffers EXCEPT ![g.buffer].writes = @ + 1]
            /\ files' = files
            /\ run' = Advance([run EXCEPT !.err = NoError])
    /\ lastOp' = "Write"
    /\ UNCHANGED << objVars, listVars, srvVars >>
    /\ UNCHANGED << b, g, buildErr, reported >>

\* return g.buffer.Write(), and the `if err != nil { return err }` of Run.
Write(ok) ==
    /\ run.pc = "write"
    /\ IF ok
       THEN /\ buffers' = [buffers EXCEPT ![g.buffer].state = "Written",
                                          ![g.buffer].writes = @ + 1]
            /\ files' = Append(files, [package |-> buffers[g.buffer].package,
                                       file |-> buffers[g.buffer].file,
                                       content |-> buffers[g.buffer].content])
            /\ run' = Advance([run EXCEPT !.err = NoError])
       ELSE /\ buffers' = [buffers EXCEPT ![g.buffer].writes = @ + 1]
            /\ files' = files
            /\ run' = [run EXCEPT !.pc = "done",
                           !.err = IOError("write"), !.result = IOError("write")]
    /\ lastOp' = "Write"
    /\ UNCHANGED << objVars, listVars, srvVars >>
    /\ UNCHANGED << b, g, buildErr, reported >>

\* A type that is neither enum nor struct: the switch does nothing and the
\* error check sees the err left by the previous statement.
SkipType ==
    /\ run.pc = "build"
    /\ ~GeneratesFile
    /\ run' = IF run.err # NoError
              THEN [run EXCEPT !.pc = "done", !.result = run.err]
              ELSE Advance(run)
    /\ lastOp' = "SkipType"
    /\ UNCHANGED << objVars, listVars, srvVars >>
    /\ UNCHANGED << b, g, buildErr, reported, buffers, files >>

\* Check if there were errors.
RunFinish ==
    /\ run.pc = "check"
    /\ run' = [run EXCEPT !.pc = "done",
                   !.result = IF g.errors > 0 THEN ErrorsMessage(g.errors)
                              ELSE NoError]
    /\ lastOp' = "RunFinish"
    /\ UNCHANGED << objVars, listVars, srvVars >>
    /\ UNCHANGED << b, g, buildErr, reported, buffers, files >>

GenInit ==
    /\ b = NewTypesGenerator
    /\ g = NoGenerator
    /\ buildErr = NoError
    /\ reported = 0
    /\ run = IdleRun
    /\ buffers = << >>
    /\ files = << >>
    /\ lastOp = "NewTypesGenerator"

GenNext ==
    \/ \E value \in { Nil, "reporter" } : Reporter(value)
    \/ \E value \in { Nil } \cup ModelNames : Model(value)
    \/ \E value \in { "", "out" } : Output(value)
    \/ \E value \in { Nil, "packages" } : Packages(value)
    \/ \E value \in { Nil, "names" } : Names(value)
    \/ \E value \in { Nil, "types" } : Types(value)
    \/ Build
    \/ RunStart
    \/ \E ok \in BOOLEAN : NewBuffer(ok)
    \/ Emit
    \/ \E ok \in BOOLEAN : Write(ok)
    \/ SkipType
    \/ RunFinish

(***************************************************************************)
(* Properties of the generator.                                            *)
(***************************************************************************)
\* The selection table of reference forms, by attribute type and link flag.
TableField(kind, link) ==
    CASE kind = "scalar" -> "Nullable"
      [] kind = "struct" -> "Nullable"
      [] kind = "list" -> IF link THEN "List" ELSE "Nullable"
      [] kind = "map" -> "Nullable"

TableGetter(kind, link) ==
    CASE kind = "scalar" -> "Value"
      [] kind = "struct" -> "Nullable"
      [] kind = "list" -> IF link THEN "List" ELSE "Nullable"
      [] kind = "map" -> "Nullable"

TableKinds == { "scalar", "struct", "list", "map" }

\* The struct sources emitted so far, in any buffer.
EmittedBuffers == { i \in 1..Len(buffers) : buffers[i].state # "Open" }

StructSources ==
    { src \in { buffers[i].content[1] : i \in EmittedBuffers } : src.what = "struct" }

\* C1: in every struct the generator emits, each attribute of a scalar,
\* struct, list or map type has the field form and the getter form of the
\* selection table, each naming the attribute's type, and the two forms of
\* an attribute differ only when the attribute is scalar-typed.
C1_SelectionTable ==
    \A src \in StructSources :
        \A i \in 1..Len(src.fields) :
            LET attr == src.fields[i].attr
                field == src.fields[i].ref
                getter == src.getters[i].ref
            IN  /\ src.getters[i].attr = attr
                /\ attr.type.kind \in TableKinds =>
                      /\ field.form = TableField(attr.type.kind, attr.link)
                      /\ getter.form = TableGetter(attr.type.kind, attr.link)
                      /\ field.type = attr.type.kind
                      /\ getter.type = attr.type.kind
                /\ field # getter => IsScalar(attr.type)

\* A struct with a scalar attribute (forms differ) and a linked list
\* attribute (list container for both) has been emitted.
C1_Witness ==
    \E src \in StructSources :
        /\ \E i \in 1..Len(src.fields) :
              /\ IsScalar(src.fields[i].attr.type)
              /\ src.fields[i].ref.form = "Nullable"
              /\ src.getters[i].ref.form = "Value"
        /\ \E i \in 1..Len(src.fields) :
              /\ IsList(src.fields[i].attr.type)
              /\ src.fields[i].attr.link
              /\ src.fields[i].ref.form = "List"
              /\ src.getters[i].ref.form = "List"

\* A Run that returned from its final error check (no buffer or write
\* failure cut it short).
RunReturnedFromCheck == run.pc = "done" /\ run.result.kind # "io"

\* C2: the final result of Run follows the number of errors reported during
\* the run: nil exactly when none was reported, "there was 1 error" for one,
\* "there were N errors" for N > 1.
C2_ResultFollowsReported ==
    RunReturnedFromCheck =>
        /\ run.result = NoError <=> reported = 0
        /\ reported = 1 =>
              run.result = [kind |-> "errors", text |-> "there was 1 error", n |-> 1]
        /\ reported > 1 =>
              run.result = [kind |-> "errors", text |-> "there were %d errors",
                            n |-> reported]

\* C3: Build returns a generator exactly when the six parameters are set;
\* otherwise an error and no generator; the generator carries the builder's
\* values, no errors and no buffer.
Configured ==
    /\ b.reporter # Nil
    /\ b.model # Nil
    /\ b.output # ""
    /\ b.packages # Nil
    /\ b.names # Nil
    /\ b.types # Nil

C3_BuildContract ==
    lastOp = "Build" =>
        /\ g.ptr # Nil <=> Configured
        /\ g.ptr # Nil <=> buildErr = NoError
        /\ g.ptr = Nil => buildErr.kind = "config"
        /\ g.ptr # Nil =>
              /\ g.reporter = b.reporter
              /\ g.model = b.model
              /\ g.output = b.output
              /\ g.packages = b.packages
              /\ g.names = b.names
              /\ g.types = b.types
              /\ g.errors = 0
              /\ g.buffer = 0

\* Build has just succeeded on a fully configured builder.
C3_Witness == lastOp = "Build" /\ g.ptr # Nil /\ Configured

\* C12: the list type of an emitted struct has the three list kind
\* constants and the Kind, Link, HREF and GetHREF accessors exactly when the
\* struct is a class; the list type of a struct that is not a class has
\* none of them.
C12_ListKindsIffClass ==
    \A src \in StructSources :
        /\ src.class =>
              /\ src.listConstants = KindConstants
              /\ ListClassMethods \subseteq src.listMethods
        /\ ~src.class =>
              /\ src.listConstants = {}
              /\ src.listMethods \cap ListClassMethods = {}

RECURSIVE Flatten(_)
Flatten(seqs) == IF seqs = << >> THEN << >> ELSE Head(seqs) \o Flatten(Tail(seqs))

OutputFile(service, version, name, what) ==
    [package |-> << service.name, version.name >>, file |-> << name, "type" >>,
     what |-> what]

\* The files of a version: its metadata, then one per enum or struct type
\* in the order of the types.
VersionFiles(service, version) ==
    LET typed == SelectSeq(version.types, LAMBDA typ : typ.kind \in { "enum", "struct" })
    IN  << OutputFile(service, version, "metadata", "metadata") >>
          \o [i \in 1..Len(typed) |->
                OutputFile(service, version, typed[i].name, typed[i].kind)]

ServiceFiles(service) ==
    Flatten([v \in 1..Len(service.versions) |->
               VersionFiles(service, service.versions[v])])

\* The files of a model: service by service, version by version.
ModelFiles(model) == Flatten([j \in 1..Len(model) |-> ServiceFiles(model[j])])

\* The files written so far: where, and what the one source in it is.
WrittenFiles ==
    [k \in 1..Len(files) |->
       [package |-> files[k].package, file |-> files[k].file,
        what |-> IF Len(files[k].content) = 1 THEN files[k].content[1].what
                 ELSE "other"]]

IsPrefix(p, q) == Len(p) <= Len(q) /\ SubSeq(q, 1, Len(p)) = p

\* C14: the files Run has written are at every moment the first files of
\* the model in its order (per version the metadata file, then a file per
\* enum or struct type, none for a scalar, list or map), no two of them
\* are the same file, and a Run that ends without a buffer or write
\* failure has written them all.
C14_FilesInModelOrder ==
    run.pc # "idle" =>
        /\ IsPrefix(WrittenFiles, ModelFiles(Services))
        /\ \A i, j \in 1..Len(files) :
              (files[i].package = files[j].package /\ files[i].file = files[j].file)
                 => i = j
        /\ RunReturnedFromCheck => WrittenFiles = ModelFiles(Services)

\* Run has ended without failure on the model with three services: five
\* files, none for the list and the map, the empty version's metadata.
C14_Witness ==
    /\ RunReturnedFromCheck
    /\ g.model = "mixed"
    /\ Len(files) = 5
    /\ files[3].package = << "authorizations", "v2" >>
    /\ files[3].file = << "metadata", "type" >>

\* The step is a NewBuffer that gave no buffer, or a Write that did not
\* write the buffer.
BufferFailed == lastOp' = "NewBuffer" /\ g'.buffer = 0

WriteFailed ==
    /\ lastOp' = "Write"
    /\ Len(buffers') = Len(buffers)
    /\ buffers'[Len(buffers')].state # "Written"

\* A failure ends Run at once with the error of the failure, the files as
\* they were and no new buffer; after Run has returned nothing is built,
\* emitted or written, and the result stays.
FailureStep ==
    /\ BufferFailed =>
          /\ run'.pc = "done" /\ run'.result = IOError("buffer")
          /\ files' = files /\ buffers' = buffers
    /\ WriteFailed =>
          /\ run'.pc = "done" /\ run'.result = IOError("write")
          /\ files' = files /\ Len(buffers') = Len(buffers)
    /\ run.pc = "done" => (run' = run /\ files' = files /\ buffers' = buffers)

\* Run returns an I/O error only from the NewBuffer or Write that failed,
\* never from a skipped type or from the final check; no iteration starts
\* with an error left by an earlier one.
FailureResult ==
    /\ run.result.kind = "io" =>
          /\ run.pc = "done"
          /\ lastOp \in { "NewBuffer", "Write" }
          /\ run.result = (IF lastOp = "NewBuffer" THEN IOError("buffer")
                           ELSE IOError("write"))
          /\ \A n \in 0..reported : run.result # ErrorsMessage(n)
    /\ lastOp = "SkipType" => (run.pc # "done" /\ run.result.kind = "none")
    /\ run.pc = "build" => run.err = NoError

\* C15: a failure to build a buffer or to write a file makes Run return
\* that error at once: nothing more is built, emitted or written, the
\* files written stay as they are, the result is the I/O error and not the
\* count of errors, and a skipped type never makes Run return an error.
C15_FailureEndsRun == []FailureResult /\ [][FailureStep]_vars

\* Writing the third file of the model with three services failed: Run has
\* returned the error with two files written and two more to come.
C15_Witness ==
    /\ run.pc = "done"
    /\ lastOp = "Write"
    /\ run.result = IOError("write")
    /\ g.model = "mixed"
    /\ Len(files) = 2
    /\ Len(ModelFiles(Services)) = 5

\* The state of every buffer agrees with the calls made on it, and only the
\* newest buffer can be short of Written.
BufferStates ==
    /\ \A i \in 1..Len(buffers) :
          /\ buffers[i].package # << >> /\ buffers[i].file # << >>
          /\ buffers[i].state = "Open" =>
                buffers[i].content = << >> /\ buffers[i].writes = 0
          /\ buffers[i].state = "HasContent" =>
                /\ buffers[i].content # << >>
                /\ buffers[i].writes = (IF run.pc = "done" THEN 1 ELSE 0)
          /\ buffers[i].state = "Written" =>
                buffers[i].content # << >> /\ buffers[i].writes = 1
          /\ i < Len(buffers) => buffers[i].state = "Written"
    /\ \A k \in 1..Len(files) :
          /\ k <= Len(buffers)
          /\ buffers[k].state = "Written"
          /\ files[k].package = buffers[k].package
          /\ files[k].file = buffers[k].file
          /\ files[k].content = buffers[k].content
    /\ Len(files) = Cardinality({ i \in 1..Len(buffers) : buffers[i].state = "Written" })

\* What one step does to the buffers: it builds a new one, Open and empty,
\* for the package and file of the iteration, when every other is Written;
\* or it emits into the newest one, still Open; or it writes the newest
\* one, which has content and was never written; or it leaves them alone.
BufferStep ==
    \/ buffers' = buffers
    \/ /\ Len(buffers') = Len(buffers) + 1
       /\ \A i \in 1..Len(buffers) :
             buffers'[i] = buffers[i] /\ buffers[i].state = "Written"
       /\ buffers'[Len(buffers')] =
             [package |-> VersionPackage, file |-> FileName, state |-> "Open",
              imports |-> {}, content |-> << >>, writes |-> 0]
    \/ /\ Len(buffers') = Len(buffers)
       /\ \A i \in 1..Len(buffers) :
             /\ buffers'[i].package = buffers[i].package
             /\ buffers'[i].file = buffers[i].file
             /\ buffers'[i] # buffers[i] =>
                   /\ i = Len(buffers)
                   /\ \/ /\ buffers[i].state = "Open"
                         /\ buffers'[i].state = "HasContent"
                         /\ buffers'[i].writes = 0
                      \/ /\ buffers[i].state = "HasContent"
                         /\ buffers'[i].state \in { "HasContent", "Written" }
                         /\ buffers'[i].content = buffers[i].content
                         /\ buffers'[i].imports = buffers[i].imports
                         /\ buffers[i].writes = 0
                         /\ buffers'[i].writes = 1

\* C13: every buffer goes Open, HasContent, Written in that order: it is
\* built with its package and file before anything is emitted, everything
\* is emitted before Write, Write is called once, and once a new buffer has
\* been built nothing is emitted into or written from an earlier one.
C13_BufferLifecycle == []BufferStates /\ [][BufferStep]_vars

\* The first buffer has been written and the second has its content.
C13_Witness ==
    /\ lastOp = "Emit"
    /\ Len(buffers) >= 2
    /\ buffers[1].state = "Written" /\ buffers[1].writes = 1
    /\ buffers[Len(buffers)].state = "HasContent"
    /\ buffers[Len(buffers)].writes = 0

(***************************************************************************)
(* The Go code generateStructTypeSource generates for a struct type: the   *)
(* object and its methods.  A field holds a pointer, slice or map; the     *)
(* model keeps whether it is nil, how many elements it has and, for a      *)
(* pointer to a scalar, the value pointed to (0 is the zero literal).      *)
(***************************************************************************)
MaxFieldLen == 1

NilValue == [nil |-> TRUE, len |-> 0, val |-> 0]

Pointer(v) == [nil |-> FALSE, len |-> 0, val |-> v]

Collection(n) == [nil |-> FALSE, len |-> n, val |-> 0]

\* types.ZeroValue: the zero literal of a scalar type.
ZeroValue(typ) == [nil |-> FALSE, len |-> 0, val |-> 0]

\* The states the field of an attribute can be in.
FieldValues(attribute) ==
    CASE IsScalar(attribute.type) -> { NilValue, Pointer(0), Pointer(1) }
      [] IsStruct(attribute.type) -> { NilValue, Pointer(1) }
      [] OTHER -> { NilValue } \cup { Collection(n) : n \in 0..MaxFieldLen }

AnyFieldValue ==
    { NilValue, Pointer(0), Pointer(1) } \cup { Collection(n) : n \in 0..MaxFieldLen }

\* The struct types of the models for which the generator emits valid code.
ObjectTypes ==
    { typ \in UNION { UNION { { version.types[i] : i \in 1..Len(version.types) } :
                        version \in { service.versions[j] : j \in 1..Len(service.versions) } } :
                      service \in UNION { { ModelOf(m)[k] : k \in 1..Len(ModelOf(m)) } :
                                          m \in ModelNames } } :
        IsStruct(typ) /\ StructErrors(typ) = 0 }

\* A nil receiver.
NilObject(typ) ==
    [ptr |-> Nil, id |-> NilValue, href |-> NilValue, link |-> FALSE,
     fields |-> [i \in 1..Len(typ.attrs) |-> NilValue]]

\* The objects of a struct type; only a class struct has id, href and link.
Objects(typ) ==
    { [ptr |-> "object", id |-> id, href |-> href, link |-> link, fields |-> fields] :
        id \in IF typ.class THEN { NilValue, Pointer(1) } ELSE { NilValue },
        href \in IF typ.class THEN { NilValue, Pointer(1) } ELSE { NilValue },
        link \in IF typ.class THEN BOOLEAN ELSE { FALSE },
        fields \in { f \in [1..Len(typ.attrs) -> AnyFieldValue] :
                       \A i \in 1..Len(typ.attrs) : f[i] \in FieldValues(typ.attrs[i]) } }

\* The three kind constants of a class struct.
KindConstant(typ) == << typ.name, "" >>

LinkKindConstant(typ) == << typ.name, "Link" >>

NilKindConstant(typ) == << typ.name, "Nil" >>

\* Kind without the link check.
ObjectKindNoLink(typ, obj) ==
    IF obj.ptr = Nil THEN NilKindConstant(typ) ELSE KindConstant(typ)

\* func (o *Object) Kind() string
ObjectKind(typ, obj) ==
    IF obj.ptr = Nil THEN NilKindConstant(typ)
    ELSE IF obj.link THEN LinkKindConstant(typ)
    ELSE KindConstant(typ)

\* func (o *Object) Link() bool
ObjectLink(typ, obj) == obj.ptr # Nil /\ obj.link

\* len(o.field) of a slice or map, and o.field.Len() of a list container:
\* both are 0 for nil.
GoLen(field) == IF field.nil THEN 0 ELSE field.len

\* func (o *Object) Empty() bool
ObjectEmpty(typ, obj) ==
    \/ obj.ptr = Nil
    \/ /\ typ.class => obj.id.nil
       /\ \A i \in 1..Len(typ.attrs) :
             LET attribute == typ.attrs[i]
                 field == obj.fields[i]
             IN  IF IsScalar(attribute.type) THEN field.nil
                 ELSE IF IsList(attribute.type) THEN GoLen(field) = 0
                 ELSE IF IsMap(attribute.type) THEN GoLen(field) = 0
                 ELSE TRUE

\* if or .Type.IsStruct .Type.IsList .Type.IsMap
ByReference(attribute) ==
    IsStruct(attribute.type) \/ IsList(attribute.type) \/ IsMap(attribute.type)

\* func (o *Object) <Name>() <getterType>
Getter(typ, obj, i) ==
    LET attribute == typ.attrs[i]
        field == obj.fields[i]
    IN  IF ByReference(attribute)
        THEN IF obj.ptr = Nil THEN NilValue ELSE field
        ELSE IF obj.ptr # Nil /\ ~field.nil THEN Pointer(field.val)
             ELSE ZeroValue(attribute.type)

\* The zero value Go gives a variable declared with a reference form.
GoZero(ref) == IF ref.form = "Value" THEN Pointer(0) ELSE NilValue

\* The probing getter with ok = o != nil only.
GetGetterNoFieldCheck(typ, obj, i) ==
    LET attribute == typ.attrs[i]
        field == obj.fields[i]
        ok == obj.ptr # Nil
    IN  [ok |-> ok,
         value |-> IF ok THEN IF ByReference(attribute) THEN field
                              ELSE Pointer(field.val)
                   ELSE GoZero(getterType(attribute).ref)]

\* func (o *Object) Get<Name>() (value <getterType>, ok bool)
GetGetter(typ, obj, i) ==
    LET attribute == typ.attrs[i]
        field == obj.fields[i]
        ok == obj.ptr # Nil /\ ~field.nil
    IN  [ok |-> ok,
         value |-> IF ok THEN IF ByReference(attribute) THEN field
                              ELSE Pointer(field.val)
                   ELSE GoZero(getterType(attribute).ref)]

NoReturn ==
    [op |-> "none", attr |-> 0, kind |-> << "", "" >>, bool |-> FALSE,
     value |-> NilValue, ok |-> FALSE]

CallKind ==
    /\ objType.class
    /\ ret' = [NoReturn EXCEPT !.op = "Kind", !.kind = ObjectKind(objType, o)]
    /\ UNCHANGED << objType, o, genVars, listVars, srvVars >>

CallLink ==
    /\ objType.class
    /\ ret' = [NoReturn EXCEPT !.op = "Link", !.bool = ObjectLink(objType, o)]
    /\ UNCHANGED << objType, o, genVars, listVars, srvVars >>

CallEmpty ==
    /\ ret' = [NoReturn EXCEPT !.op = "Empty", !.bool = ObjectEmpty(objType, o)]
    /\ UNCHANGED << objType, o, genVars, listVars, srvVars >>

CallGetter(i) ==
    /\ ret' = [NoReturn EXCEPT !.op = "Getter", !.attr = i,
                               !.value = Getter(objType, o, i)]
    /\ UNCHANGED << objType, o, genVars, listVars, srvVars >>

CallGetGetter(i) ==
    /\ ret' = [NoReturn EXCEPT !.op = "GetGetter", !.attr = i,
                               !.value = GetGetter(objType, o, i).value,
                               !.ok = GetGetter(objType, o, i).ok]
    /\ UNCHANGED << objType, o, genVars, listVars, srvVars >>

ObjectNext ==
    \/ CallKind
    \/ CallLink
    \/ CallEmpty
    \/ \E i \in 1..Len(objType.attrs) : CallGetter(i)
    \/ \E i \in 1..Len(objType.attrs) : CallGetGetter(i)

(***************************************************************************)
(* Properties of the generated struct code.                                *)
(***************************************************************************)
\* C4: Kind() of a class struct is <Name>Nil for a nil receiver, <Name>Link
\* for an object whose link flag is set and <Name> otherwise, three distinct
\* constants; Link() is true exactly when Kind() is the link kind.
C4_KindAndLink ==
    LET name == objType.name
    IN  /\ ret.op = "Kind" =>
              /\ ret.kind \in { << name, "" >>, << name, "Link" >>, << name, "Nil" >> }
              /\ o.ptr = Nil <=> ret.kind = << name, "Nil" >>
              /\ (o.ptr # Nil /\ o.link) <=> ret.kind = << name, "Link" >>
              /\ (o.ptr # Nil /\ ~o.link) <=> ret.kind = << name, "" >>
        /\ ret.op = "Link" =>
              (ret.bool <=> ObjectKind(objType, o) = << name, "Link" >>)

\* Kind() was called on a link and returned the link kind.
C4_Witness ==
    /\ ret.op = "Kind"
    /\ o.ptr # Nil
    /\ o.link
    /\ ret.kind = << objType.name, "Link" >>

\* Every field of the object is nil, empty or false.
AllFieldsZero(typ, obj) ==
    /\ obj.id.nil
    /\ obj.href.nil
    /\ ~obj.link
    /\ \A i \in 1..Len(typ.attrs) :
          IF IsScalar(typ.attrs[i].type) \/ IsStruct(typ.attrs[i].type)
          THEN obj.fields[i].nil
          ELSE GoLen(obj.fields[i]) = 0

\* C5: Empty() is true exactly when the receiver is nil or every field of
\* the object is in its zero or empty state.
C5_EmptyIffAllZero ==
    ret.op = "Empty" =>
        (ret.bool <=> (o.ptr = Nil \/ AllFieldsZero(objType, o)))

\* The attribute has a value: the object exists and the field is not nil.
HasValue(obj, i) == obj.ptr # Nil /\ ~obj.fields[i].nil

\* The zero value of the getter form of an attribute: the zero literal for
\* the value form, nil for the nullable and list forms.
GetterZero(attribute) ==
    IF getterType(attribute).ref.form = "Value"
    THEN ZeroValue(attribute.type)
    ELSE NilValue

\* C6: Get<Name>() returns ok exactly when the attribute has a value, and
\* then the value <Name>() returns; otherwise both return the zero value of
\* the getter form.  <Name>() returns the value pointed to for a scalar and
\* the field itself for a struct, list or map.
C6_Getters ==
    /\ ret.op = "GetGetter" =>
          LET attribute == objType.attrs[ret.attr]
          IN  /\ ret.ok <=> HasValue(o, ret.attr)
              /\ ret.ok => ret.value = Getter(objType, o, ret.attr)
              /\ ~ret.ok => /\ ret.value = GetterZero(attribute)
                            /\ Getter(objType, o, ret.attr) = GetterZero(attribute)
    /\ ret.op = "Getter" =>
          LET attribute == objType.attrs[ret.attr]
          IN  IF HasValue(o, ret.attr)
              THEN ret.value = IF IsScalar(attribute.type)
                               THEN Pointer(o.fields[ret.attr].val)
                               ELSE o.fields[ret.attr]
              ELSE ret.value = GetterZero(attribute)

\* The probing getter found a scalar attribute set to the zero literal.
C6_Witness ==
    /\ ret.op = "GetGetter"
    /\ IsScalar(objType.attrs[ret.attr].type)
    /\ o.fields[ret.attr] = Pointer(0)
    /\ ret.ok
    /\ ret.value = ZeroValue(objType.attrs[ret.attr].type)

(***************************************************************************)
(* The Go code generateStructTypeSource generates for the list container   *)
(* of a struct type.  Slices share backing arrays: heap holds the arrays   *)
(* that can still be reached, heap[1] the array of the list's items and    *)
(* heap[2] the array of the slice the caller holds; a slice names its      *)
(* array (0: the nil slice) and its length; an item is a pointer to an     *)
(* object, 0 being the nil pointer.                                        *)
(***************************************************************************)
MaxLen == 2

MaxItem == 1

NilSlice == [arr |-> 0, len |-> 0]

NilList == [ptr |-> Nil, items |-> NilSlice]

Items == 0..MaxItem

\* The elements of a slice, in order.
Elems(h, sl) == IF sl.arr = 0 THEN << >> ELSE SubSeq(h[sl.arr], 1, sl.len)

\* cap(slice)
Cap(h, sl) == IF sl.arr = 0 THEN 0 ELSE Len(h[sl.arr])

\* func (l *List) Len() int
ListLen(h, lst) == IF lst.ptr = Nil THEN 0 ELSE lst.items.len

\* func (l *List) Empty() bool
ListEmpty(h, lst) == lst.ptr = Nil \/ lst.items.len = 0

\* Get without the lower bound check: a negative index reads out of range.
ListGetNoLowerBound(h, lst, i) ==
    IF lst.ptr = Nil \/ i >= lst.items.len THEN 0
    ELSE IF i < 0 THEN -1
    ELSE h[lst.items.arr][i + 1]

\* func (l *List) Get(i int) *Object
ListGet(h, lst, i) ==
    IF lst.ptr = Nil \/ i < 0 \/ i >= lst.items.len THEN 0
    ELSE h[lst.items.arr][i + 1]

\* make([]*Object, n) and the writes that fill it: the new array takes the
\* place of the caller's previous one, which nothing refers to any more.
Make(h, contents) == << h[1], contents >>

\* Slice returning the internal slice itself.
ListSliceAlias(h, lst) ==
    IF lst.ptr = Nil
    THEN [heap |-> Make(h, << >>), slice |-> [arr |-> 2, len |-> 0]]
    ELSE [heap |-> h, slice |-> lst.items]

\* func (l *List) Slice() []*Object: make and copy.
ListSlice(h, lst) ==
    IF lst.ptr = Nil
    THEN [heap |-> Make(h, << >>), slice |-> [arr |-> 2, len |-> 0]]
    ELSE [heap |-> Make(h, Elems(h, lst.items)),
          slice |-> [arr |-> 2, len |-> lst.items.len]]

\* The loop of Each from the k-th item on; the n-th call of f returns
\* answers[n].  A call is recorded with the item it was given.
RECURSIVE EachFrom(_, _, _)
EachFrom(items, answers, k) ==
    IF k > Len(items) THEN << >>
    ELSE << [index |-> -1, item |-> items[k]] >> \o
         (IF answers[k] THEN EachFrom(items, answers, k + 1) ELSE << >>)

\* func (l *List) Each(f func(item *Object) bool)
ListEach(h, lst, answers) ==
    IF lst.ptr = Nil THEN << >> ELSE EachFrom(Elems(h, lst.items), answers, 1)

\* The loop of Range without the break.
RECURSIVE RangeFromNoBreak(_, _, _)
RangeFromNoBreak(items, answers, k) ==
    IF k > Len(items) THEN << >>
    ELSE << [index |-> k - 1, item |-> items[k]] >> \o
         RangeFromNoBreak(items, answers, k + 1)

\* The loop of Range from the k-th item on; a call is recorded with the
\* index and the item it was given.
RECURSIVE RangeFrom(_, _, _)
RangeFrom(items, answers, k) ==
    IF k > Len(items) THEN << >>
    ELSE << [index |-> k - 1, item |-> items[k]] >> \o
         (IF answers[k] THEN RangeFrom(items, answers, k + 1) ELSE << >>)

\* func (l *List) Range(f func(index int, item *Object) bool)
ListRange(h, lst, answers) ==
    IF lst.ptr = Nil THEN << >> ELSE RangeFrom(Elems(h, lst.items), answers, 1)

NoListReturn ==
    [op |-> "none", arg |-> 0, int |-> 0, bool |-> FALSE, item |-> 0,
     answers |-> << >>, calls |-> << >>]

\* The lists of at most MaxLen items.
ItemSeqs == UNION { [1..n -> Items] : n \in 0..MaxLen }

\* What f answers on its first, second, ... call.
Answers == [1..MaxLen -> BOOLEAN]

\* The caller holds a list built with the given items, or a nil pointer.
MakeList(isNil, items) ==
    /\ IF isNil
       THEN heap' = << << >> >> /\ l' = NilList /\ made' = << >>
       ELSE /\ heap' = << items >>
            /\ l' = [ptr |-> "list", items |-> [arr |-> 1, len |-> Len(items)]]
            /\ made' = items
    /\ slice' = NilSlice
    /\ lret' = NoListReturn
    /\ UNCHANGED << genVars, objVars, srvVars >>

CallLen ==
    /\ lret' = [NoListReturn EXCEPT !.op = "Len", !.int = ListLen(heap, l)]
    /\ UNCHANGED << heap, l, made, slice, genVars, objVars, srvVars >>

CallListEmpty ==
    /\ lret' = [NoListReturn EXCEPT !.op = "Empty", !.bool = ListEmpty(heap, l)]
    /\ UNCHANGED << heap, l, made, slice, genVars, objVars, srvVars >>

CallGet(i) ==
    /\ lret' = [NoListReturn EXCEPT !.op = "Get", !.arg = i,
                                    !.item = ListGet(heap, l, i)]
    /\ UNCHANGED << heap, l, made, slice, genVars, objVars, srvVars >>

CallSlice ==
    /\ heap' = ListSlice(heap, l).heap
    /\ slice' = ListSlice(heap, l).slice
    /\ lret' = [NoListReturn EXCEPT !.op = "Slice"]
    /\ UNCHANGED << l, made, genVars, objVars, srvVars >>

\* The caller replaces an element of the slice it got: slice[i] = x.
SliceSet(i, x) ==
    /\ slice.arr # 0
    /\ i \in 1..slice.len
    /\ heap' = [heap EXCEPT ![slice.arr][i] = x]
    /\ lret' = [NoListReturn EXCEPT !.op = "SliceSet"]
    /\ UNCHANGED << l, made, slice, genVars, objVars, srvVars >>

\* The caller reorders the slice it got: slice[i], slice[j] = slice[j], slice[i].
SliceSwap(i, j) ==
    /\ slice.arr # 0
    /\ i \in 1..slice.len /\ j \in 1..slice.len /\ i < j
    /\ heap' = [heap EXCEPT ![slice.arr][i] = heap[slice.arr][j],
                            ![slice.arr][j] = heap[slice.arr][i]]
    /\ lret' = [NoListReturn EXCEPT !.op = "SliceSwap"]
    /\ UNCHANGED << l, made, slice, genVars, objVars, srvVars >>

\* The caller appends to the slice it got: slice = append(slice, x) writes
\* in place while there is capacity and moves to a new array otherwise.
SliceAppend(x) ==
    /\ slice.arr # 0
    /\ slice.len <= MaxLen
    /\ IF slice.len < Cap(heap, slice)
       THEN /\ heap' = [heap EXCEPT ![slice.arr][slice.len + 1] = x]
            /\ slice' = [slice EXCEPT !.len = @ + 1]
       ELSE /\ heap' = Make(heap, Append(Elems(heap, slice), x))
            /\ slice' = [arr |-> 2, len |-> slice.len + 1]
    /\ lret' = [NoListReturn EXCEPT !.op = "SliceAppend"]
    /\ UNCHANGED << l, made, genVars, objVars, srvVars >>

CallEach(answers) ==
    /\ lret' = [NoListReturn EXCEPT !.op = "Each", !.answers = answers,
                                    !.calls = ListEach(heap, l, answers)]
    /\ UNCHANGED << heap, l, made, slice, genVars, objVars, srvVars >>

CallRange(answers) ==
    /\ lret' = [NoListReturn EXCEPT !.op = "Range", !.answers = answers,
                                    !.calls = ListRange(heap, l, answers)]
    /\ UNCHANGED << heap, l, made, slice, genVars, objVars, srvVars >>

ListNext ==
    \/ \E isNil \in BOOLEAN : \E items \in IF isNil THEN { << >> } ELSE ItemSeqs :
          MakeList(isNil, items)
    \/ CallLen
    \/ CallListEmpty
    \/ \E i \in -2..(MaxLen + 1) : CallGet(i)
    \/ CallSlice
    \/ \E i \in 1..MaxLen : \E x \in Items : SliceSet(i, x)
    \/ \E i \in 1..MaxLen : \E j \in 1..MaxLen : SliceSwap(i, j)
    \/ \E x \in Items : SliceAppend(x)
    \/ \E answers \in Answers : CallEach(answers)
    \/ \E answers \in Answers : CallRange(answers)

(***************************************************************************)
(* Properties of the generated list code.                                  *)
(***************************************************************************)
\* C7: Get(i) is the i-th item for 0 <= i < Len() and nil for any other
\* index and for a nil receiver; Len() is the number of items, 0 for a nil
\* receiver; Empty() holds exactly when Len() is 0.
C7_LenEmptyGet ==
    /\ lret.op = "Get" =>
          IF l.ptr # Nil /\ 0 <= lret.arg /\ lret.arg < Len(made)
          THEN lret.item = made[lret.arg + 1]
          ELSE lret.item = 0
    /\ lret.op = "Len" => lret.int = IF l.ptr = Nil THEN 0 ELSE Len(made)
    /\ lret.op = "Empty" => (lret.bool <=> ListLen(heap, l) = 0)

\* Get was called with a negative index on a list that has items.
C7_Witness ==
    /\ lret.op = "Get"
    /\ lret.arg < 0
    /\ Len(made) > 0
    /\ lret.item = 0

\* C8: Slice() returns a non-nil slice with the items of the list in order
\* (empty for a nil receiver), and whatever the caller then does to that
\* slice, the items of the list, Len() and Get(i) stay what they were.
C8_SliceIsACopy ==
    /\ lret.op = "Slice" =>
          /\ slice.arr # 0
          /\ Elems(heap, slice) = made
    /\ l.ptr # Nil => Elems(heap, l.items) = made
    /\ ListLen(heap, l) = Len(made)
    /\ \A i \in 0..(Len(made) - 1) : ListGet(heap, l, i) = made[i + 1]

\* The caller has changed the slice it got, which now differs from the list.
C8_Witness ==
    /\ lret.op \in { "SliceSet", "SliceSwap", "SliceAppend" }
    /\ Len(made) > 0
    /\ Elems(heap, slice) # made

\* The number of calls f gets on n items: up to and including the first
\* call it answers false.
RECURSIVE CallsUntilFalse(_, _, _)
CallsUntilFalse(answers, n, k) ==
    IF k > n THEN n
    ELSE IF ~answers[k] THEN k
    ELSE CallsUntilFalse(answers, n, k + 1)

\* C9: Each and Range call f on the items in index order from index 0,
\* stop after the first call f answers false, reach every item when f
\* always answers true, make no call on a nil receiver; Range passes the
\* index of the item; neither changes the list.
C9_EachAndRange ==
    lret.op \in { "Each", "Range" } =>
        /\ Len(lret.calls) = CallsUntilFalse(lret.answers, Len(made), 1)
        /\ \A k \in 1..Len(lret.calls) :
              /\ lret.calls[k].item = made[k]
              /\ lret.op = "Range" => lret.calls[k].index = k - 1
              /\ k < Len(lret.calls) => lret.answers[k]
        /\ l.ptr = Nil => lret.calls = << >>
        /\ (\A k \in 1..Len(made) : lret.answers[k]) => Len(lret.calls) = Len(made)
        /\ l.ptr # Nil => Elems(heap, l.items) = made

\* Range stopped at the first item although the list has more.
C9_Witness ==
    /\ lret.op = "Range"
    /\ Len(made) > 1
    /\ ~lret.answers[1]
    /\ lret.calls = << [index |-> 0, item |-> made[1]] >>

(***************************************************************************)
(* The server adapter under the server tests: the user implementation of   *)
(* the tests and the routing of the generated adapter.  A path is the      *)
(* sequence of its segments: "/clusters/" is << "clusters", "" >>.         *)
(***************************************************************************)
MaxSegments == 3

Segments == { "clusters", "identity_providers", "groups", "123", "foo", "" }

Paths == UNION { [1..n -> Segments] : n \in 1..MaxSegments }

\* A locator of a server: the path segment it answers to ("{id}" for a
\* locator with an identifier) and the server it returns (Nil: none).
Locator(segment, target) == [segment |-> segment, target |-> target]

MyTestRootServer ==
    [methods |-> {},
     locators |-> { Locator("clusters", "MyTestClustersServer") }]

MyTestClustersServer ==
    [methods |-> { "List", "Add" },
     locators |-> { Locator("{id}", "MyTestClusterServer") }]

\* The cluster server with IdentityProviders() returning nil as Groups() does.
MyTestClusterServerNoProviders ==
    [methods |-> { "Get", "Update", "Delete" },
     locators |-> { Locator("groups", Nil), Locator("identity_providers", Nil) }]

MyTestClusterServer ==
    [methods |-> { "Get", "Update", "Delete" },
     locators |-> { Locator("groups", Nil),
                    Locator("identity_providers", "MyTestIdentityProvidersServer") }]

MyTestIdentityProvidersServer ==
    [methods |-> { "List", "Add" },
     locators |-> { Locator("{id}", Nil) }]

ServerOf(name) ==
    CASE name = "MyTestRootServer" -> MyTestRootServer
      [] name = "MyTestClustersServer" -> MyTestClustersServer
      [] name = "MyTestClusterServer" -> MyTestClusterServer
      [] name = "MyTestIdentityProvidersServer" -> MyTestIdentityProvidersServer

NoMethod == << "", "" >>

NotFound == [status |-> 404, invoked |-> NoMethod, ids |-> << >>]

\* The methods of a resource a GET on its own path maps to.
GetMethods == { "List", "Get" }

\* The locator of the server that answers to the segment: a literal one, or
\* the one with an identifier for a non-empty segment.
Locate(server, segment) ==
    LET literal == { loc \in server.locators : loc.segment = segment }
        variable == { loc \in server.locators : loc.segment = "{id}" /\ segment # "" }
    IN  IF literal # {} THEN literal ELSE variable

\* The adapter of the named server serving a GET for the rest of the path:
\* the outcomes it can have.  The user's handlers of the tests return no
\* error, so an invoked method ends in status 200; with no server to hand
\* the request to, nothing is invoked.
RECURSIVE Dispatch(_, _, _)
Dispatch(name, rest, ids) ==
    LET server == ServerOf(name)
    IN  IF rest = << >>
        THEN IF server.methods \cap GetMethods = {}
             THEN { NotFound }
             ELSE { [status |-> 200, invoked |-> << name, method >>, ids |-> ids] :
                      method \in server.methods \cap GetMethods }
        ELSE IF Locate(server, Head(rest)) = {}
        THEN { NotFound }
        ELSE LET loc == CHOOSE x \in Locate(server, Head(rest)) : TRUE
                 bound == IF loc.segment = "{id}" THEN Append(ids, Head(rest)) ELSE ids
             IN  IF loc.target = Nil
                 THEN { [status |-> st, invoked |-> NoMethod, ids |-> << >>] :
                          st \in { 404, 500 } }
                 ELSE Dispatch(loc.target, Tail(rest), bound)

MaxValue == 2

\* A query is a sequence of parameters, each named once: "page=2&size=1"
\* is << Param("page", 2), Param("size", 1) >>.
Param(key, value) == [key |-> key, value |-> value]

Queries ==
    { << >> }
      \cup { << Param(k, v) >> : k \in { "page", "size" }, v \in 0..MaxValue }
      \cup { << Param("page", v), Param("size", w) >> : v \in 0..MaxValue, w \in 0..MaxValue }
      \cup { << Param("size", w), Param("page", v) >> : v \in 0..MaxValue, w \in 0..MaxValue }

\* The integer value of a query parameter, zero if the query has none.
RECURSIVE QueryInt(_, _)
QueryInt(query, key) ==
    IF query = << >> THEN 0
    ELSE IF Head(query).key = key THEN Head(query).value
    ELSE QueryInt(Tail(query), key)

\* The request object the adapter builds for a List method.
ListRequest(query) ==
    [page |-> QueryInt(query, "page"), size |-> QueryInt(query, "size")]

\* MyTestClustersServer.List with fixed page, size and total.
ClustersListFixed(req) == [page |-> 1, size |-> 1, total |-> 1]

\* MyTestClustersServer.List: one item; page and size of the request, the
\* length of the items as total.
ClustersList(req) == [page |-> req.page, size |-> req.size, total |-> 1]

\* MyTestIdentityProvidersServer.List: one item; page, size and total 1.
IdentityProvidersList(req) == [page |-> 1, size |-> 1, total |-> 1]

NoListing ==
    [list |-> FALSE, received |-> [page |-> 0, size |-> 0],
     page |-> 0, size |-> 0, total |-> 0]

\* What the List handler received and the page, size and total of the
\* envelope the adapter writes: the values the handler set on the response.
Listing(invoked, query) ==
    IF invoked[2] # "List" THEN NoListing
    ELSE LET req == ListRequest(query)
             res == IF invoked[1] = "MyTestClustersServer"
                    THEN ClustersList(req)
                    ELSE IdentityProvidersList(req)
         IN  [list |-> TRUE, received |-> req,
              page |-> res.page, size |-> res.size, total |-> res.total]

\* The adapter the test has just made has served no request yet.
Fresh == request.method = "none"

\* rootAdapter.ServeHTTP(recorder, request) for a GET of the path and query,
\* on the adapter the test has just made.
ServeHTTP(path, query) ==
    /\ Fresh
    /\ request' = [method |-> "GET", path |-> path, query |-> query]
    /\ response' \in Dispatch("MyTestRootServer", path, << >>)
    /\ listing' = Listing(response'.invoked, query)
    /\ UNCHANGED << genVars, objVars, listVars >>

NoRequest == [method |-> "none", path |-> << >>, query |-> << >>]

NoResponse == [status |-> 0, invoked |-> NoMethod, ids |-> << >>]

\* The next test: a new server, adapter and recorder.
NewRootAdapter ==
    /\ ~Fresh
    /\ request' = NoRequest
    /\ response' = NoResponse
    /\ listing' = NoListing
    /\ UNCHANGED << genVars, objVars, listVars >>

ServerNext ==
    \/ Fresh /\ \E path \in Paths : \E query \in Queries : ServeHTTP(path, query)
    \/ NewRootAdapter

(***************************************************************************)
(* Properties of the server adapter.                                       *)
(***************************************************************************)
\* The path leads to a locator of the tests' implementation that returns no
\* server: Groups() of a cluster, IdentityProvider(id) of its providers.
ReachesNoServer(p) ==
    /\ Len(p) >= 3
    /\ p[1] = "clusters"
    /\ p[2] # ""
    /\ \/ p[3] = "groups"
       \/ Len(p) >= 4 /\ p[3] = "identity_providers" /\ p[4] # ""

\* C10: a GET resolves to a user method exactly when its path is a chain
\* of locator segments ending at a resource with a method for GET
\* (/clusters, /clusters/{id}, /clusters/{id}/identity_providers, the id
\* bound to the locator); any other path is answered 404 and no user
\* method is invoked.
C10_Routing ==
    LET p == request.path
        invoked == response.invoked
    IN  request.method = "GET" =>
          /\ p = << "clusters" >> =>
                response = [status |-> 200, ids |-> << >>,
                            invoked |-> << "MyTestClustersServer", "List" >>]
          /\ (Len(p) = 2 /\ p[1] = "clusters" /\ p[2] # "") =>
                response = [status |-> 200, ids |-> << p[2] >>,
                            invoked |-> << "MyTestClusterServer", "Get" >>]
          /\ (Len(p) = 3 /\ p[1] = "clusters" /\ p[2] # ""
                /\ p[3] = "identity_providers") =>
                response = [status |-> 200, ids |-> << p[2] >>,
                            invoked |-> << "MyTestIdentityProvidersServer", "List" >>]
          /\ invoked # NoMethod =>
                /\ Len(p) \in 1..3
                /\ p[1] = "clusters"
                /\ Len(p) >= 2 => p[2] # ""
                /\ Len(p) = 3 => p[3] = "identity_providers"
          /\ (invoked = NoMethod /\ ~ReachesNoServer(p)) => response.status = 404

\* /clusters/123/foo was answered 404 without invoking a user method.
C10_Witness ==
    /\ request.method = "GET"
    /\ request.path = << "clusters", "123", "foo" >>
    /\ response = NotFound

\* The value the query gives a parameter, zero without one.
QueryValue(query, key) ==
    LET values == { query[i].value : i \in { j \in DOMAIN query : query[j].key = key } }
    IN  IF values = {} THEN 0 ELSE CHOOSE v \in values : TRUE

\* C11: a List handler receives the page and size of the query, zero for a
\* parameter that is absent, in whatever order they come; page, size and
\* total of the envelope are what the handler set: the request's values
\* and the item count for the clusters, 1, 1 and 1 for the identity
\* providers, whatever the query says.
C11_ListEnvelope ==
    /\ listing.list <=> (response.status = 200 /\ response.invoked[2] = "List")
    /\ listing.list =>
          /\ listing.received.page = QueryValue(request.query, "page")
          /\ listing.received.size = QueryValue(request.query, "size")
          /\ response.invoked[1] = "MyTestClustersServer" =>
                /\ listing.page = QueryValue(request.query, "page")
                /\ listing.size = QueryValue(request.query, "size")
                /\ listing.total = 1
          /\ response.invoked[1] = "MyTestIdentityProvidersServer" =>
                /\ listing.page = 1
                /\ listing.size = 1
                /\ listing.total = 1

\* /clusters?size=2&page=1 was answered with page 1, size 2 and total 1.
C11_Witness ==
    /\ request.path = << "clusters" >>
    /\ request.query = << Param("size", 2), Param("page", 1) >>
    /\ response.status = 200
    /\ listing.received = [page |-> 1, size |-> 2]
    /\ listing.page = 1 /\ listing.size = 2 /\ listing.total = 1

(***************************************************************************)
(* Specifications: the generator, the generated struct code, the generated *)
(* list code and the server adapter, each with the others at rest.         *)
(***************************************************************************)
RestType == CHOOSE typ \in ObjectTypes : typ.class

ObjectInit ==
    /\ objType = RestType
    /\ o = NilObject(RestType)
    /\ ret = NoReturn

ListInit ==
    /\ heap = << << >> >>
    /\ l = NilList
    /\ made = << >>
    /\ slice = NilSlice
    /\ lret = NoListReturn

ServerInit ==
    /\ request = NoRequest
    /\ response = NoResponse
    /\ listing = NoListing

\* The caller holds an object of a generated struct type, or a nil pointer.
AnyObjectInit ==
    /\ objType \in ObjectTypes
    /\ o \in Objects(objType) \cup { NilObject(objType) }
    /\ ret = NoReturn

Init == GenInit /\ ObjectInit /\ ListInit /\ ServerInit

Spec == Init /\ [][GenNext]_vars

InitObject == GenInit /\ AnyObjectInit /\ ListInit /\ ServerInit

SpecObject == InitObject /\ [][ObjectNext]_vars

SpecList == Init /\ [][ListNext]_vars

SpecServer == Init /\ [][ServerNext]_vars

====
